---- MODULE Spec2Model ----
(***************************************************************************)
(* git2llm: the exclusion/inclusion decision engine, the content           *)
(* classifier and the walker/emitter of src/git2llm.go.                    *)
(*                                                                         *)
(* Strings are TLA+ strings (Len, SubSeq and \o act on them).  A file's    *)
(* content is a sequence of runs of bytes: text bytes (non-zero bytes that *)
(* form no marker), zero bytes, or one occurrence of the marker literal,   *)
(* so that the 16384-byte read window keeps its real width.                *)
(***************************************************************************)
EXTENDS Integers, Sequences, FiniteSets, TLC

VARIABLES
    cfg,                \* the arguments of NewGit2LLM, the file system and the working
                        \* directory of the run, the writes the output sink refuses, and
                        \* the documented -R option (noRecurse), which no code reads
    exclusionPatterns,  \* Git2LLM.exclusionPatterns
    pc,                 \* position of the run
    outputWriter,       \* the primary output: the writes made so far, in order
    stderr,             \* the diagnostic stream: the lines written so far
    writeCalls,         \* the number of writes asked of the primary output so far
    fsCalls,            \* the calls the scan has made on g.fs, in order
    handles,            \* the file handles g.fs.Open gave and their Close calls, in order
    walkQueue,          \* the callbacks filepath.Walk has still to make
    tokens,             \* Git2LLM.tokens
    retErr,             \* the error NewGit2LLM / ScanRepository returned ("" for nil)
    mPath,              \* isExcluded: its argument
    mTodo,              \* isExcluded: the patterns the range loop has not visited
    mRet,               \* isExcluded: the value returned
    cFile,              \* isForbiddenFile: the file it is called on
    cRet                \* isForbiddenFile: the reason returned

vars == <<cfg, exclusionPatterns, pc, outputWriter, stderr, writeCalls, fsCalls,
          handles, walkQueue, tokens, retErr, mPath, mTodo, mRet, cFile, cRet>>

scanVars == <<cfg, outputWriter, stderr, writeCalls, fsCalls, handles, walkQueue, tokens,
              retErr>>
matchVars == <<mPath, mTodo, mRet>>
classifyVars == <<cFile, cRet>>

\* ------------------------------------------------------------------ bounds

\* largest number of patterns in a pattern set handed to isExcluded
MaxPatterns == 2
\* largest number of -e patterns given to NewGit2LLM
MaxCustom == 1
\* largest number of runs in the content of a classified file
MaxRuns == 2
\* largest number of lines in an ignore file handed to loadExclusionPatterns
MaxLines == 2

\* ------------------------------------------------------------ program text

exclusionFile == ".llmignore"
secretKeyMarker == "PRIVATE KEY"
PathSeparator == "/"
\* make([]byte, 16384)
ChunkSize == 16384
\* the length of the line of dashes under a File: line
DashCount == 50

\* ------------------------------------------------------------------ strings

Min(a, b) == IF a <= b THEN a ELSE b

HasPrefix(s, prefix) ==
    /\ Len(prefix) <= Len(s)
    /\ SubSeq(s, 1, Len(prefix)) = prefix

HasSuffix(s, suffix) ==
    /\ Len(suffix) <= Len(s)
    /\ SubSeq(s, Len(s) - Len(suffix) + 1, Len(s)) = suffix

\* s[from:] with a 0-based offset
From(s, from) == SubSeq(s, from + 1, Len(s))

\* strings.Index(s, c) for a one-character c, 0-based, -1 when absent
RECURSIVE IndexFrom(_, _, _)
IndexFrom(s, c, i) ==
    IF i > Len(s) THEN -1
    ELSE IF SubSeq(s, i, i) = c THEN i - 1
    ELSE IndexFrom(s, c, i + 1)

Index(s, c) == IndexFrom(s, c, 1)

\* strings.Split(s, sep) for a one-character sep
RECURSIVE Split(_, _)
Split(s, sep) ==
    LET i == Index(s, sep)
    IN  IF i = -1 THEN <<s>>
        ELSE <<SubSeq(s, 1, i)>> \o Split(From(s, i + 1), sep)

Range(f) == {f[i] : i \in DOMAIN f}

\* strings.Repeat
RECURSIVE Repeat(_, _)
Repeat(s, count) == IF count = 0 THEN "" ELSE s \o Repeat(s, count - 1)

\* filepath.Match(pattern, name) for patterns made of literals, '*' and '?':
\* '*' matches any sequence of non-separator characters, '?' one of them.
RECURSIVE Match(_, _)
Match(pattern, name) ==
    IF pattern = "" THEN name = ""
    ELSE LET c == SubSeq(pattern, 1, 1)
             rest == From(pattern, 1)
         IN  IF c = "*"
             THEN \/ Match(rest, name)
                  \/ /\ name # ""
                     /\ SubSeq(name, 1, 1) # PathSeparator
                     /\ Match(pattern, From(name, 1))
             ELSE IF c = "?"
             THEN /\ name # ""
                  /\ SubSeq(name, 1, 1) # PathSeparator
                  /\ Match(rest, From(name, 1))
             ELSE /\ name # ""
                  /\ SubSeq(name, 1, 1) = c
                  /\ Match(rest, From(name, 1))

\* --------------------------------------------------------- Pattern Matcher

\* PatternExcludes without the loop over the parts of the path
PatternExcludesWholePath(pattern, path) ==
    IF HasPrefix(pattern, "/") /\ HasSuffix(pattern, "/")
    THEN \/ HasPrefix(path, From(pattern, 1))
         \/ path = SubSeq(pattern, 2, Len(pattern) - 1)
    ELSE IF HasSuffix(pattern, "/")
    THEN \/ HasPrefix(path, pattern)
         \/ path = SubSeq(pattern, 1, Len(pattern) - 1)
    ELSE IF HasPrefix(pattern, "/")
    THEN \/ path = From(pattern, 1)
         \/ HasPrefix(path, From(pattern, 1) \o PathSeparator)
    ELSE Match(pattern, path)

\* PatternExcludes with `name/` compared without its slash
PatternExcludesBarePrefix(pattern, path) ==
    IF HasPrefix(pattern, "/") /\ HasSuffix(pattern, "/")
    THEN \/ HasPrefix(path, From(pattern, 1))
         \/ path = SubSeq(pattern, 2, Len(pattern) - 1)
    ELSE IF HasSuffix(pattern, "/")
    THEN HasPrefix(path, SubSeq(pattern, 1, Len(pattern) - 1))
    ELSE IF HasPrefix(pattern, "/")
    THEN \/ path = From(pattern, 1)
         \/ HasPrefix(path, From(pattern, 1) \o PathSeparator)
    ELSE \/ Match(pattern, path)
         \/ \E part \in Range(Split(path, PathSeparator)) : Match(pattern, part)

\* PatternExcludes with `name/` looked for at every depth of the path
PatternExcludesAnyDepth(pattern, path) ==
    IF HasPrefix(pattern, "/") /\ HasSuffix(pattern, "/")
    THEN \/ HasPrefix(path, From(pattern, 1))
         \/ path = SubSeq(pattern, 2, Len(pattern) - 1)
    ELSE IF HasSuffix(pattern, "/")
    THEN \/ HasPrefix(path, pattern)
         \/ path = SubSeq(pattern, 1, Len(pattern) - 1)
         \/ \E k \in 1..Len(path) :
               /\ SubSeq(path, k, k) = PathSeparator
               /\ \/ HasPrefix(From(path, k), pattern)
                  \/ From(path, k) = SubSeq(pattern, 1, Len(pattern) - 1)
    ELSE IF HasPrefix(pattern, "/")
    THEN \/ path = From(pattern, 1)
         \/ HasPrefix(path, From(pattern, 1) \o PathSeparator)
    ELSE \/ Match(pattern, path)
         \/ \E part \in Range(Split(path, PathSeparator)) : Match(pattern, part)

\* PatternExcludes with `/name` compared without the separator after it
PatternExcludesNoSeparator(pattern, path) ==
    IF HasPrefix(pattern, "/") /\ HasSuffix(pattern, "/")
    THEN \/ HasPrefix(path, From(pattern, 1))
         \/ path = SubSeq(pattern, 2, Len(pattern) - 1)
    ELSE IF HasSuffix(pattern, "/")
    THEN \/ HasPrefix(path, pattern)
         \/ path = SubSeq(pattern, 1, Len(pattern) - 1)
    ELSE IF HasPrefix(pattern, "/")
    THEN HasPrefix(path, From(pattern, 1))
    ELSE \/ Match(pattern, path)
         \/ \E part \in Range(Split(path, PathSeparator)) : Match(pattern, part)

\* the body of isExcluded's range loop for one pattern: TRUE when it returns true
PatternExcludes(pattern, path) ==
    IF HasPrefix(pattern, "/") /\ HasSuffix(pattern, "/")
    THEN \/ HasPrefix(path, From(pattern, 1))
         \/ path = SubSeq(pattern, 2, Len(pattern) - 1)
    ELSE IF HasSuffix(pattern, "/")
    THEN \/ HasPrefix(path, pattern)
         \/ path = SubSeq(pattern, 1, Len(pattern) - 1)
    ELSE IF HasPrefix(pattern, "/")
    THEN \/ path = From(pattern, 1)
         \/ HasPrefix(path, From(pattern, 1) \o PathSeparator)
    ELSE \/ Match(pattern, path)
         \/ \E part \in Range(Split(path, PathSeparator)) : Match(pattern, part)

\* one iteration of the range loop: what it does after looking at `pattern`
isExcludedStepFirstOnly(pattern, path) ==
    IF PatternExcludes(pattern, path) THEN "return true" ELSE "return false"

\* isExcludedStep with a negation syntax: a pattern that starts with `!`
\* ends the loop with false for the paths the rest of it matches
isExcludedStepNegation(pattern, path) ==
    IF HasPrefix(pattern, "!") /\ PatternExcludes(From(pattern, 1), path)
    THEN "return false"
    ELSE IF PatternExcludes(pattern, path) THEN "return true" ELSE "continue"

isExcludedStep(pattern, path) ==
    IF PatternExcludes(pattern, path) THEN "return true" ELSE "continue"

\* isExcluded as the walker and the tree renderer use it
isExcluded(path, patterns) ==
    \E pattern \in patterns : isExcludedStep(pattern, path) = "return true"

\* ------------------------------------------------------ Content Classifier

\* the runs a content is made of
Text(n) == [b |-> "text", n |-> n]
Zero(n) == [b |-> "zero", n |-> n]
Marker == [b |-> "marker", n |-> Len(secretKeyMarker)]

RECURSIVE Size(_)
Size(content) ==
    IF content = <<>> THEN 0 ELSE Head(content).n + Size(Tail(content))

\* the offset of the first byte of run i
Offset(content, i) == Size(SubSeq(content, 1, i - 1))

\* n of file.Read(buffer): a regular file fills the buffer up to its size
ReadCount(content) == Min(Size(content), ChunkSize)

\* for i := 0; i < n; i++ { if buffer[i] == 0 ... }
HasZeroByte(content, n) ==
    \E i \in DOMAIN content :
        /\ content[i].b = "zero"
        /\ content[i].n > 0
        /\ Offset(content, i) < n

\* bytes.Contains(buffer, []byte(secretKeyMarker)): the buffer holds the n
\* bytes read and zeroes after them, so the marker lies within the n bytes
ContainsMarker(content, n) ==
    \E i \in DOMAIN content :
        /\ content[i].b = "marker"
        /\ Offset(content, i) + Len(secretKeyMarker) <= n

\* isForbiddenFile with the marker test ahead of the null-byte loop
isForbiddenFileMarkerFirst(file) ==
    IF file.fault = "open" THEN "error(open)"
    ELSE IF file.fault = "read" THEN "error(read)"
    ELSE LET n == ReadCount(file.content)
         IN  IF ContainsMarker(file.content, n) THEN "private key"
             ELSE IF HasZeroByte(file.content, n) THEN "binary"
             ELSE ""

\* isForbiddenFile without the marker test
isForbiddenFileNullOnly(file) ==
    IF file.fault = "open" THEN "error(open)"
    ELSE IF file.fault = "read" THEN "error(read)"
    ELSE IF HasZeroByte(file.content, ReadCount(file.content)) THEN "binary"
    ELSE ""

\* isForbiddenFile: the reason it returns, "" for a plain file
isForbiddenFile(file) ==
    IF file.fault = "open" THEN "error(open)"
    ELSE IF file.fault = "read" THEN "error(read)"
    ELSE LET n == ReadCount(file.content)
         IN  IF HasZeroByte(file.content, n) THEN "binary"
             ELSE IF ContainsMarker(file.content, n) THEN "private key"
             ELSE ""

\* isSymlink with Stat in the place of Lstat: Stat follows the link, so the
\* mode it returns never has os.ModeSymlink
isSymlinkStat(file) == FALSE

\* isSymlink: Lstat of the entry itself; an Lstat error counts as "no symlink"
isSymlink(file) ==
    IF file.fault = "lstat" THEN FALSE ELSE file.kind = "symlink"

\* ------------------------------------------------------------- file system

\* the characters of entry names, in byte order
Ascii == "-./0123456789ABCDEFGHIJKLMNOPQRSTUVWXYZ_abcdefghijklmnopqrstuvwxyz"

Code(c) == Index(Ascii, c)

\* a < b, comparing byte by byte (Go's < on strings)
RECURSIVE StrLess(_, _)
StrLess(a, b) ==
    IF b = "" THEN FALSE
    ELSE IF a = "" THEN TRUE
    ELSE IF SubSeq(a, 1, 1) = SubSeq(b, 1, 1) THEN StrLess(From(a, 1), From(b, 1))
    ELSE Code(SubSeq(a, 1, 1)) < Code(SubSeq(b, 1, 1))

\* strings.ToLower
RECURSIVE ToLower(_)
ToLower(s) ==
    IF s = "" THEN ""
    ELSE LET c == SubSeq(s, 1, 1)
             k == Code(c)
             lc == IF k >= Code("A") /\ k <= Code("Z")
                   THEN SubSeq(Ascii, k - Code("A") + Code("a") + 1,
                                      k - Code("A") + Code("a") + 1)
                   ELSE c
         IN  lc \o ToLower(From(s, 1))

\* the last element of a path (os.FileInfo.Name, os.DirEntry.Name)
Name(path) ==
    LET parts == Split(path, PathSeparator) IN parts[Len(parts)]

\* the directory a relative path lies in, "." for an entry of the root
Parent(path) ==
    IF Index(path, PathSeparator) = -1 THEN "."
    ELSE SubSeq(path, 1, Len(path) - Len(Name(path)) - 1)

\* entries of a file system: path relative to the start path, kind, content
\* (for a symlink: of its target), and the operation that fails on it
File(path, content) ==
    [path |-> path, kind |-> "file", content |-> content, fault |-> "none"]
Faulty(path, content, fault) ==
    [path |-> path, kind |-> "file", content |-> content, fault |-> fault]
Symlink(path, content) ==
    [path |-> path, kind |-> "symlink", content |-> content, fault |-> "none"]
\* a symbolic link on which g.fs.Lstat fails
StaleLink(path, content) ==
    [path |-> path, kind |-> "symlink", content |-> content, fault |-> "lstat"]
Dir(path) ==
    [path |-> path, kind |-> "dir", content |-> <<>>, fault |-> "none"]
LockedDir(path) ==
    [path |-> path, kind |-> "dir", content |-> <<>>, fault |-> "readdir"]

Root == Dir(".")

Layouts ==
    [ project |->
        { Root, File("main.go", <<Text(1)>>), File(".env", <<Text(1)>>),
          File("data.log", <<Text(1)>>), File("app.tar.gz", <<Text(1), Zero(1)>>),
          Dir("src"), File("src/utils.go", <<Text(1)>>),
          File("src/main_test.go", <<Text(1)>>),
          Dir("vendor"), File("vendor/lib.go", <<Text(1)>>),
          Dir(".hidden"), File(".hidden/x", <<Text(1)>>) },
      content |->
        { Root, File("id_rsa", <<Marker, Text(1)>>),
          File("late.pem", <<Text(ChunkSize), Marker>>),
          File("img.bin", <<Zero(1)>>), File("empty.txt", <<>>),
          Symlink("link", <<Marker>>), StaleLink("stale", <<Text(2)>>),
          Faulty("locked.txt", <<Text(1)>>, "open"),
          Faulty("bad.txt", <<Text(1)>>, "read"),
          Faulty("gone.txt", <<Text(1)>>, "readfile"),
          Faulty("odd.txt", <<Text(1)>>, "lstat"),
          Faulty("vanished", <<Text(1)>>, "walk") },
      nested |->
        { Root, File("file1.go", <<Text(1)>>), File("notes.txt", <<Text(1)>>),
          Dir("a"), Dir("a/temp"), File("a/temp/file.txt", <<Text(1)>>),
          Dir("temp"), File("temp/file.txt", <<Text(1)>>),
          Dir("temporary"), File("temporary/file.txt", <<Text(1)>>),
          Dir("sub"), File("sub/file2.go", <<Text(1)>>) },
      locked |->
        { Root, Dir("dirA"), File("dirA/x.txt", <<Text(1)>>),
          File("fileB.txt", <<Text(1)>>), File("FileA.txt", <<Text(1)>>),
          File("apple.txt", <<Text(1)>>),
          LockedDir("priv"), File("priv/key.pem", <<Marker>>) },
      ignored |->
        { Root, File("main.go", <<Text(1)>>), File("secret.key", <<Text(1)>>),
          File("public.txt", <<Text(1)>>),
          Dir("temp"), File("temp/cache.tmp", <<Text(1)>>),
          Dir("logs"), File("logs/app.log", <<Text(1)>>) },
      missing |->
        { LockedDir(".") } ]

\* the start path as an entry of the layout: a start path that does not
\* exist or cannot be read is a directory on which ReadDir fails
RootOf(layout) == CHOOSE e \in Layouts[layout] : e.path = "."

\* the states the .llmignore file of the start path can be in
IgnoreStates == {"absent", "present", "denied", "unreadable"}

\* the .llmignore file as an entry of the start path
IgnoreEntry(state) ==
    IF state = "absent" THEN {}
    ELSE IF state = "present" THEN {File(exclusionFile, <<Text(1)>>)}
    ELSE IF state = "denied" THEN {Faulty(exclusionFile, <<Text(1)>>, "open")}
    ELSE {Faulty(exclusionFile, <<Text(1)>>, "read")}

\* the entries under the start path
Tree(layout, state) == Layouts[layout] \cup IgnoreEntry(state)

FS(c) == Tree(c.layout, c.ignoreFile.state)

Children(fs, dir) == {e \in fs : e.path # "." /\ Parent(e.path) = dir}

\* the names of a directory in the order filepath.Walk visits them
RECURSIVE WalkOrder(_)
WalkOrder(entries) ==
    IF entries = {} THEN <<>>
    ELSE LET first == CHOOSE e \in entries :
                          \A o \in entries \ {e} : StrLess(Name(e.path), Name(o.path))
         IN  <<first>> \o WalkOrder(entries \ {first})

\* TreeLess with the names compared as they are
TreeLessCaseSensitive(a, b) ==
    IF (a.kind = "dir") # (b.kind = "dir") THEN a.kind = "dir"
    ELSE StrLess(Name(a.path), Name(b.path))

\* the less function of the sort.Slice call in generateTree
TreeLess(a, b) ==
    IF (a.kind = "dir") # (b.kind = "dir") THEN a.kind = "dir"
    ELSE StrLess(ToLower(Name(a.path)), ToLower(Name(b.path)))

\* a directory's entries as generateTree sorts them
RECURSIVE TreeOrder(_)
TreeOrder(entries) ==
    IF entries = {} THEN <<>>
    ELSE LET first == CHOOSE e \in entries :
                          \A o \in entries \ {e} : TreeLess(e, o)
         IN  <<first>> \o TreeOrder(entries \ {first})

\* the calls filepath.Walk makes to its callback below `e`, in order: a
\* directory that cannot be read and an entry that cannot be lstat-ed are
\* handed to the callback with an error and not descended into
RECURSIVE walk(_, _), walkNames(_, _)
walk(fs, e) ==
    IF e.kind # "dir" THEN <<[entry |-> e, err |-> FALSE]>>
    ELSE IF e.fault = "readdir" THEN <<[entry |-> e, err |-> TRUE]>>
    ELSE <<[entry |-> e, err |-> FALSE]>>
         \o walkNames(fs, WalkOrder(Children(fs, e.path)))

walkNames(fs, names) ==
    IF names = <<>> THEN <<>>
    ELSE (IF Head(names).fault = "walk"
          THEN <<[entry |-> Head(names), err |-> TRUE]>>
          ELSE walk(fs, Head(names)))
         \o walkNames(fs, Tail(names))

\* what ReadDir followed by the sort.Slice call of generateTree yields for
\* each directory of each file system
SortedEntries ==
    [l \in DOMAIN Layouts |->
        [st \in IgnoreStates |->
            [d \in {e.path : e \in {x \in Layouts[l] : x.kind = "dir"}} |->
                TreeOrder(Children(Tree(l, st), d))]]]

\* the calls filepath.Walk(g.startPath, ...) makes on each file system
WalkCalls ==
    [l \in DOMAIN Layouts |-> [st \in IgnoreStates |-> walk(Tree(l, st), RootOf(l))]]

\* ----------------------------------------------------------- Tree Renderer

\* entryName ends with one of the extensions of the filter
MatchesFileTypes(name, fileTypes) ==
    \E k \in DOMAIN fileTypes : HasSuffix(name, fileTypes[k])

\* one line of the tree: the running prefix (a sequence of "bar" for the
\* 4-column vertical-bar continuation and "blank" for the 4 spaces), the
\* connector ("tee" for the non-last form, "ell" for the last form), the name
TreeLine(prefix, connector, e) ==
    [prefix |-> prefix, connector |-> connector,
     name |-> Name(e.path), path |-> e.path, isDir |-> e.kind = "dir"]

\* generateTree(dirPath, prefix) with `tree` the lines written so far and
\* the directories g.fs.ReadDir was called on so far: the lines of the tree
\* and the directories read after the call, and the error it returns
RECURSIVE generateTree(_, _, _, _), renderEntries(_, _, _, _, _),
          afterSubtree(_, _, _, _, _)
generateTree(c, dir, prefix, tree) ==
    IF dir.fault = "readdir"
    THEN [err |-> "error reading directory", at |-> dir.path,
          lines |-> tree.lines, reads |-> Append(tree.reads, dir.path)]
    ELSE renderEntries(c, SortedEntries[c.layout][c.ignoreState][dir.path], 1,
                       prefix, [tree EXCEPT !.reads = Append(@, dir.path)])

\* renderEntries with the exclusion test made on files only
renderEntriesFilesOnly(c, entries, i, prefix, tree) ==
    IF i > Len(entries)
    THEN [err |-> "", at |-> "", lines |-> tree.lines, reads |-> tree.reads]
    ELSE
      LET entry == entries[i]
          last == (i = Len(entries))
          connector == IF last THEN "ell" ELSE "tee"
          newPrefix == prefix \o (IF last THEN <<"blank">> ELSE <<"bar">>)
          line == TreeLine(prefix, connector, entry)
      IN  IF entry.kind # "dir" /\ isExcluded(entry.path, c.patterns)
          THEN renderEntries(c, entries, i + 1, prefix, tree)
          ELSE IF /\ entry.kind # "dir"
                  /\ Len(c.fileTypes) > 0
                  /\ ~MatchesFileTypes(Name(entry.path), c.fileTypes)
          THEN renderEntries(c, entries, i + 1, prefix, tree)
          ELSE IF entry.kind = "dir"
          THEN afterSubtree(c, entries, i, prefix,
                            generateTree(c, entry, newPrefix,
                                         [tree EXCEPT !.lines = Append(@, line)]))
          ELSE renderEntries(c, entries, i + 1, prefix,
                             [tree EXCEPT !.lines = Append(@, line)])

\* renderEntries with the suffix filter applied to directories too
renderEntriesFilterAll(c, entries, i, prefix, tree) ==
    IF i > Len(entries)
    THEN [err |-> "", at |-> "", lines |-> tree.lines, reads |-> tree.reads]
    ELSE
      LET entry == entries[i]
          last == (i = Len(entries))
          connector == IF last THEN "ell" ELSE "tee"
          newPrefix == prefix \o (IF last THEN <<"blank">> ELSE <<"bar">>)
          line == TreeLine(prefix, connector, entry)
      IN  IF isExcluded(entry.path, c.patterns)
          THEN renderEntries(c, entries, i + 1, prefix, tree)
          ELSE IF /\ Len(c.fileTypes) > 0
                  /\ ~MatchesFileTypes(Name(entry.path), c.fileTypes)
          THEN renderEntries(c, entries, i + 1, prefix, tree)
          ELSE IF entry.kind = "dir"
          THEN afterSubtree(c, entries, i, prefix,
                            generateTree(c, entry, newPrefix,
                                         [tree EXCEPT !.lines = Append(@, line)]))
          ELSE renderEntries(c, entries, i + 1, prefix,
                             [tree EXCEPT !.lines = Append(@, line)])

\* the loop `for i, entry := range entries` from index i on
renderEntries(c, entries, i, prefix, tree) ==
    IF i > Len(entries)
    THEN [err |-> "", at |-> "", lines |-> tree.lines, reads |-> tree.reads]
    ELSE
      LET entry == entries[i]
          last == (i = Len(entries))
          connector == IF last THEN "ell" ELSE "tee"
          newPrefix == prefix \o (IF last THEN <<"blank">> ELSE <<"bar">>)
          line == TreeLine(prefix, connector, entry)
      IN  IF isExcluded(entry.path, c.patterns)
          THEN renderEntries(c, entries, i + 1, prefix, tree)
          ELSE IF /\ entry.kind # "dir"
                  /\ Len(c.fileTypes) > 0
                  /\ ~MatchesFileTypes(Name(entry.path), c.fileTypes)
          THEN renderEntries(c, entries, i + 1, prefix, tree)
          ELSE IF entry.kind = "dir"
          THEN afterSubtree(c, entries, i, prefix,
                            generateTree(c, entry, newPrefix,
                                         [tree EXCEPT !.lines = Append(@, line)]))
          ELSE renderEntries(c, entries, i + 1, prefix,
                             [tree EXCEPT !.lines = Append(@, line)])

\* afterSubtree with the error of the nested call dropped
afterSubtreeIgnoreError(c, entries, i, prefix, sub) ==
    renderEntries(c, entries, i + 1, prefix,
                  [lines |-> sub.lines, reads |-> sub.reads])

\* `if err := generateTree(fullPath, newPrefix); err != nil { return err }`
afterSubtree(c, entries, i, prefix, sub) ==
    IF sub.err # "" THEN sub
    ELSE renderEntries(c, entries, i + 1, prefix,
                       [lines |-> sub.lines, reads |-> sub.reads])

\* the tokenizer, counter.Count: an external collaborator, here one token
\* per byte of a content and one per line of the tree
CountContent(content) == Size(content)
CountTree(lines) == Len(lines) + 1

\* generateDirectoryStructureString: the tree text (without its root marker
\* line), the error, the tokens it adds, and the directories it called
\* g.fs.ReadDir on
generateDirectoryStructureString(c) ==
    LET t == generateTree(c, RootOf(c.layout), <<>>, [lines |-> <<>>, reads |-> <<>>])
    IN  IF t.err # ""
        THEN [err |-> t.err, at |-> t.at, lines |-> <<>>, tokens |-> 0,
              reads |-> t.reads]
        ELSE [err |-> "", at |-> "", lines |-> t.lines,
              tokens |-> IF c.countTokens THEN CountTree(t.lines) ELSE 0,
              reads |-> t.reads]

\* ---------------------------------------------------------- Walker/Emitter

\* a write to the primary output
Out(w, path, note, data) == [w |-> w, path |-> path, note |-> note, data |-> data]
\* a line on the diagnostic stream
Diag(msg, path, n) == [msg |-> msg, path |-> path, n |-> n]
\* a call on g.fs
FsCall(op, path) == [op |-> op, path |-> path]

\* strings.Repeat("-", 50)
Dashes == Repeat("-", DashCount)

\* the steps of a code path, in program order: a write to g.outputWriter
\* with the error returned when the writer refuses it, a line on os.Stderr,
\* a call on g.fs, an addition to g.tokens, a return with an error
Write(out, err) == [k |-> "write", out |-> out, err |-> err]
\* Log with g.outputWriter in the place of os.Stderr
LogToOutput(d) ==
    [k |-> "write", out |-> [w |-> "diag", path |-> d.path, note |-> d.msg, data |-> <<>>],
     err |-> "error writing to output file"]
Log(d) == [k |-> "diag", d |-> d]
Call(op, path) == [k |-> "call", c |-> FsCall(op, path)]
AddTokens(n) == [k |-> "tokens", n |-> n]
Return(err) == [k |-> "return", err |-> err]
\* g.fs.Open has given a handle on the file ("open"), the handle is closed
\* ("close")
Handle(h, path) == [k |-> "handle", h |-> [h |-> h, path |-> path]]

\* the writes among the first p steps
WritesIn(steps, p) == Cardinality({q \in 1..p : steps[q].k = "write"})

RECURSIVE SumTokens(_)
SumTokens(steps) ==
    IF steps = <<>> THEN 0 ELSE Head(steps).n + SumTokens(Tail(steps))

\* what a code path does when n writes were asked of the writer before it
\* and the writer refuses the writes numbered in failWrites: the path runs
\* up to its first refused write or its return
Run(steps, n, failWrites) ==
    LET stops == {p \in DOMAIN steps :
                    \/ steps[p].k = "return"
                    \/ /\ steps[p].k = "write"
                       /\ n + WritesIn(steps, p) \in failWrites}
        stop == IF stops = {} THEN Len(steps) + 1
                ELSE CHOOSE p \in stops : \A q \in stops : p <= q
        ran == SubSeq(steps, 1, stop - 1)
        written == SelectSeq(ran, LAMBDA s : s.k = "write")
        logged == SelectSeq(ran, LAMBDA s : s.k = "diag")
        called == SelectSeq(ran, LAMBDA s : s.k = "call")
        handled == SelectSeq(ran, LAMBDA s : s.k = "handle")
    IN  [ out |-> [i \in 1..Len(written) |-> written[i].out],
          diag |-> [i \in 1..Len(logged) |-> logged[i].d],
          calls |-> [i \in 1..Len(called) |-> called[i].c],
          handles |-> [i \in 1..Len(handled) |-> handled[i].h],
          tokens |-> SumTokens(SelectSeq(ran, LAMBDA s : s.k = "tokens")),
          writes |-> WritesIn(steps, Min(stop, Len(steps))),
          err |-> IF stop > Len(steps) THEN "" ELSE steps[stop].err ]

WriteError == "error writing to output file"

\* the three writes of a block whose content is skipped
SkipBlock(relPath, fileNote, contentNote) ==
    << Write(Out("File", relPath, fileNote, <<>>), WriteError),
       Write(Out("dashes", relPath, Dashes, <<>>), WriteError),
       Write(Out("Content of", relPath, contentNote, <<>>), WriteError) >>

\* PlainBlock with one newline after the content
PlainBlockOneNewline(relPath, content) ==
    << Write(Out("Content of", relPath, "", <<>>), WriteError),
       Write(Out("bytes", relPath, "", content), WriteError),
       Write(Out("newline", relPath, "", <<>>), WriteError) >>

\* the writes of a plain file's block after its ReadFile
PlainBlock(relPath, content) ==
    << Write(Out("Content of", relPath, "", <<>>), WriteError),
       Write(Out("bytes", relPath, "", content), WriteError),
       Write(Out("newline", relPath, "", <<>>), WriteError),
       Write(Out("newline", relPath, "", <<>>), WriteError) >>

\* the calls isSymlink makes on g.fs
isSymlinkCalls(file) == <<Call("Lstat", file.path)>>

\* isForbiddenFileCalls with file.Close() called at the end of the function
\* and not deferred: the returns before the end leave the handle open
isForbiddenFileCallsNoDefer(file) ==
    IF file.fault = "open" THEN <<Call("Open", file.path)>>
    ELSE IF file.fault = "read" \/ isForbiddenFile(file) # ""
    THEN << Call("Open", file.path), Handle("open", file.path),
            Call("Read", file.path) >>
    ELSE << Call("Open", file.path), Handle("open", file.path),
            Call("Read", file.path),
            Call("Close", file.path), Handle("close", file.path) >>

\* the calls isForbiddenFile makes on g.fs and on the file it opened: a
\* failed Open gives no handle, and the deferred file.Close() runs on every
\* return after a successful Open
isForbiddenFileCalls(file) ==
    IF file.fault = "open" THEN <<Call("Open", file.path)>>
    ELSE << Call("Open", file.path), Handle("open", file.path),
            Call("Read", file.path),
            Call("Close", file.path), Handle("close", file.path) >>

\* the code path of processFile(filePath, relPath)
processFileSteps(c, e) ==
    LET reason == isForbiddenFile(e)
        processing == IF c.verbose THEN <<Log(Diag("Processing:", e.path, 0))>> ELSE <<>>
        newTokens == IF c.countTokens THEN CountContent(e.content) ELSE 0
        count == IF c.countTokens THEN <<AddTokens(CountContent(e.content))>> ELSE <<>>
    IN  IF isSymlink(e)
        THEN isSymlinkCalls(e)
             \o <<Log(Diag("Skipping symlink", e.path, 0))>>
             \o SkipBlock(e.path, "Symlink - skipped content", "Skipped - Symlink")
        ELSE IF reason # ""
        THEN isSymlinkCalls(e) \o isForbiddenFileCalls(e)
             \o <<Log(Diag("Skipping forbidden " \o reason, e.path, 0))>>
             \o SkipBlock(e.path, "Binary - skipped content", "Skipped - Binary File")
        ELSE isSymlinkCalls(e) \o isForbiddenFileCalls(e)
             \o processing
             \o << Write(Out("File", e.path, "", <<>>), WriteError),
                   Write(Out("dashes", e.path, Dashes, <<>>), WriteError),
                   Call("ReadFile", e.path) >>
             \o (IF e.fault = "readfile"
                 THEN << Write(Out("Error reading file", e.path, "Content skipped.", <<>>),
                               "error writing error message to output file"),
                         Return("error reading file") >>
                 ELSE count
                      \o (IF c.verbose
                          THEN <<Log(Diag(IF c.countTokens THEN "tokens, lines" ELSE "lines",
                                          e.path, newTokens))>>
                          ELSE <<>>)
                      \o PlainBlock(e.path, e.content)
                      \o count)

\* processFile(filePath, relPath) when n writes were made before it: its
\* writes, its diagnostics, its calls on g.fs, the tokens it adds, the number
\* of writes it asks for and the error it returns ("" for nil)
processFile(c, e, n) == Run(processFileSteps(c, e), n, c.failWrites)

NoEffect ==
    [out |-> <<>>, diag |-> <<>>, calls |-> <<>>, handles |-> <<>>, tokens |-> 0,
     writes |-> 0, err |-> ""]

\* extLoop without the `return nil` after processFile
RECURSIVE extLoopNoReturn(_, _, _, _)
extLoopNoReturn(fileTypes, name, processed, k) ==
    IF k > Len(fileTypes) THEN NoEffect
    ELSE LET later == extLoopNoReturn(fileTypes, name, processed, k + 1)
         IN  IF HasSuffix(name, fileTypes[k])
             THEN [out |-> processed.out \o later.out,
                   diag |-> processed.diag \o later.diag,
                   calls |-> processed.calls \o later.calls,
                   handles |-> processed.handles \o later.handles,
                   tokens |-> processed.tokens + later.tokens,
                   writes |-> processed.writes + later.writes,
                   err |-> ""]
             ELSE later

\* the loop over g.fileTypes in the callback, from the k-th extension on:
\* the file is processed at the first extension its name ends with, and the
\* callback returns there
RECURSIVE extLoop(_, _, _, _)
extLoop(fileTypes, name, processed, k) ==
    IF k > Len(fileTypes) THEN NoEffect
    ELSE IF HasSuffix(name, fileTypes[k]) THEN processed
    ELSE extLoop(fileTypes, name, processed, k + 1)

\* the callback with the error of processFile handed on to filepath.Walk
walkFnStopOnError(c, call, n) ==
    LET e == call.entry
        p == processFile(c, e, n)
    IN  IF call.err
        THEN [NoEffect EXCEPT !.diag = <<Diag("Error accessing path", e.path, 0)>>]
        ELSE IF e.kind = "dir" THEN NoEffect
        ELSE IF isExcluded(e.path, c.patterns) THEN NoEffect
        ELSE IF Len(c.fileTypes) = 0 THEN p
        ELSE extLoop(c.fileTypes, Name(e.path), p, 1)

\* the callback ScanRepository hands to filepath.Walk, for one call made
\* when n writes were made before it; err is what it returns to Walk
walkFn(c, call, n) ==
    LET e == call.entry
        p == processFile(c, e, n)
        processed == [p EXCEPT !.diag = @ \o (IF p.err # ""
                                              THEN <<Diag("Error processing file", e.path, 0)>>
                                              ELSE <<>>),
                               !.err = ""]
    IN  IF call.err
        THEN [NoEffect EXCEPT !.diag = <<Diag("Error accessing path", e.path, 0)>>]
        ELSE IF e.kind = "dir" THEN NoEffect
        ELSE IF isExcluded(e.path, c.patterns) THEN NoEffect
        ELSE IF Len(c.fileTypes) = 0 THEN processed
        ELSE extLoop(c.fileTypes, Name(e.path), processed, 1)

\* ------------------------------------------------------------ construction

IsSpace(ch) == ch = " " \/ ch = "\t" \/ ch = "\r"

\* strings.TrimSpace
RECURSIVE TrimLeft(_), TrimRight(_)
TrimLeft(s) ==
    IF s # "" /\ IsSpace(SubSeq(s, 1, 1)) THEN TrimLeft(From(s, 1)) ELSE s
TrimRight(s) ==
    IF s # "" /\ IsSpace(SubSeq(s, Len(s), Len(s)))
    THEN TrimRight(SubSeq(s, 1, Len(s) - 1)) ELSE s
TrimSpace(s) == TrimLeft(TrimRight(s))

defaultPatterns == {".git", ".svn", ".idea", ".vscode", "go.sum"}

\* lines of the embedded test-patterns.txt, testPatterns
testPatterns ==
    << "# Test file patterns for mainstream languages", "# Python",
       "conftest.py", "", "# Go", "*_test.go" >>

\* the scanner loop with the comment test made on the line as read
IgnoreFilePatternsRawTest(lines) ==
    { TrimSpace(lines[k]) : k \in {j \in DOMAIN lines :
          /\ TrimSpace(lines[j]) # ""
          /\ ~HasPrefix(lines[j], "#")} }

\* the scanner loop of loadExclusionPatterns over the lines of the file
IgnoreFilePatterns(lines) ==
    { TrimSpace(lines[k]) : k \in {j \in DOMAIN lines :
          /\ TrimSpace(lines[j]) # ""
          /\ ~HasPrefix(TrimSpace(lines[j]), "#")} }

\* a handle given by g.fs.Open and closed by the deferred file.Close()
OpenedAndClosed(path) == <<[h |-> "open", path |-> path], [h |-> "close", path |-> path]>>

\* loadExclusionPatterns with every failure of Open taken as "no such file"
loadExclusionPatternsAnyOpenError(file) ==
    IF file.state \in {"absent", "denied"}
    THEN [err |-> "", patterns |-> defaultPatterns, handles |-> <<>>]
    ELSE IF file.state = "unreadable"
    THEN [err |-> "error reading exclusion file", patterns |-> {},
          handles |-> OpenedAndClosed(exclusionFile)]
    ELSE [err |-> "", patterns |-> defaultPatterns \cup IgnoreFilePatterns(file.lines),
          handles |-> OpenedAndClosed(exclusionFile)]

\* loadExclusionPatterns(".llmignore"): the pattern set, the error and the
\* handles opened and closed; the file is the one fs.Open finds under that
\* name, and `defer file.Close()` follows a successful Open
loadExclusionPatterns(file) ==
    IF file.state = "absent"
    THEN [err |-> "", patterns |-> defaultPatterns, handles |-> <<>>]
    ELSE IF file.state = "denied"
    THEN [err |-> "error opening exclusion file", patterns |-> {}, handles |-> <<>>]
    ELSE IF file.state = "unreadable"
    THEN [err |-> "error reading exclusion file", patterns |-> {},
          handles |-> OpenedAndClosed(exclusionFile)]
    ELSE [err |-> "", patterns |-> defaultPatterns \cup IgnoreFilePatterns(file.lines),
          handles |-> OpenedAndClosed(exclusionFile)]

\* one line of the test patterns: the part before '#', trimmed
TestPatternOf(line) ==
    LET i == Index(line, "#")
    IN  TrimSpace(IF i # -1 THEN SubSeq(line, 1, i) ELSE line)

\* loadTestPatterns: the patterns it adds
loadTestPatterns ==
    { TestPatternOf(testPatterns[k]) : k \in DOMAIN testPatterns } \ {""}

NoIgnoreFile == [state |-> "absent", lines |-> <<>>]

\* the file g.fs.Open(exclusionFile) finds: the name is relative, so it is
\* looked up in the working directory of the process, which holds the
\* .llmignore of the start path only when it is the start path
OpenedIgnoreFile(c) == IF c.cwd = "startPath" THEN c.ignoreFile ELSE NoIgnoreFile

\* NewGit2LLM with the test patterns loaded whether asked for or not
NewGit2LLMAlwaysTests(c) ==
    LET loaded == loadExclusionPatterns(OpenedIgnoreFile(c))
    IN  IF c.countTokens /\ c.model = "unknown"
        THEN [err |-> "tokens.New()", patterns |-> {}, diag |-> <<>>, handles |-> <<>>]
        ELSE IF loaded.err # ""
        THEN [err |-> "failed to load exclusion patterns: " \o loaded.err,
              patterns |-> {}, diag |-> <<>>, handles |-> loaded.handles]
        ELSE [err |-> "", handles |-> loaded.handles,
              patterns |-> loaded.patterns \cup c.excludePatterns \cup loadTestPatterns,
              diag |-> IF c.verbose
                       THEN <<Diag("Excluded test patterns", "",
                                   Cardinality({k \in DOMAIN testPatterns :
                                       TestPatternOf(testPatterns[k]) # ""}))>>
                       ELSE <<>>]

\* NewGit2LLM: the error it returns, the pattern set of the instance and the
\* diagnostics written
NewGit2LLM(c) ==
    LET loaded == loadExclusionPatterns(OpenedIgnoreFile(c))
    IN  IF c.countTokens /\ c.model = "unknown"
        THEN [err |-> "tokens.New()", patterns |-> {}, diag |-> <<>>, handles |-> <<>>]
        ELSE IF loaded.err # ""
        THEN [err |-> "failed to load exclusion patterns: " \o loaded.err,
              patterns |-> {}, diag |-> <<>>, handles |-> loaded.handles]
        ELSE [err |-> "", handles |-> loaded.handles,
              patterns |-> loaded.patterns \cup c.excludePatterns
                           \cup (IF c.excludeTests THEN loadTestPatterns ELSE {}),
              diag |-> IF c.excludeTests /\ c.verbose
                       THEN <<Diag("Excluded test patterns", "",
                                   Cardinality({k \in DOMAIN testPatterns :
                                       TestPatternOf(testPatterns[k]) # ""}))>>
                       ELSE <<>>]

\* ------------------------------------------------------------- the inputs

SubsetsUpTo(S, n) == {T \in SUBSET S : Cardinality(T) <= n}

SeqsUpTo(S, n) == UNION {[1..k -> S] : k \in 0..n}

FileTypeChoices == { <<>>, <<".go">>, <<".go", ".gz", ".tar.gz">> }

CustomPatterns == {"vendor", "temp/", "*.log", "priv", "a/temp"}

IgnoreFiles ==
    { NoIgnoreFile,
      [state |-> "present",
       lines |-> << "# Ignore secret files", "*.key", "# Ignore temp directories",
                    "temp/", "# Ignore log files", "*.log", "logs/" >>],
      [state |-> "denied", lines |-> <<>>],
      [state |-> "unreadable", lines |-> <<>>] }

\* the writes the primary output refuses, by their number in the run: none,
\* a header line, the third write of the first block, a write of a later block
FailWriteChoices == { {}, {4}, {8}, {17} }

\* the runs: every combination of the arguments on a writer that takes
\* every write with the process started in the start path, and fewer
\* combinations on a writer that refuses a write, with the process started
\* in another directory (one that holds no .llmignore), or with -R given
Configs ==
    { c \in [ layout : DOMAIN Layouts,
              fileTypes : FileTypeChoices,
              excludePatterns : SubsetsUpTo(CustomPatterns, MaxCustom),
              ignoreFile : IgnoreFiles,
              cwd : {"startPath", "elsewhere"},
              failWrites : FailWriteChoices,
              excludeTests : BOOLEAN,
              verbose : BOOLEAN,
              countTokens : BOOLEAN,
              model : {"cl100k_base", "unknown"},
              noRecurse : BOOLEAN ] :
        /\ c.countTokens \/ c.model = "cl100k_base"
        /\ c.cwd = "elsewhere" =>
              /\ c.ignoreFile.state = "present"
              /\ c.failWrites = {}
              /\ ~c.excludeTests /\ ~c.verbose /\ ~c.noRecurse
        /\ c.failWrites # {} =>
              /\ c.ignoreFile.state = "absent"
              /\ c.model = "cl100k_base"
              /\ ~c.excludeTests /\ ~c.verbose /\ ~c.noRecurse
        /\ c.noRecurse =>
              /\ c.ignoreFile.state = "absent"
              /\ ~c.excludeTests /\ ~c.verbose /\ ~c.countTokens }

\* the lines loadExclusionPatterns is exercised on
LineChoices ==
    { "*.key", "  temp/ ", "\tlogs/\r", "# comment", "  # indented comment", "",
      "   ", "my file.txt", "*.log # logs" }

\* the ignore files loadExclusionPatterns is exercised on
LoadFiles ==
    { [state |-> st, lines |-> <<>>] : st \in {"absent", "denied", "unreadable"} }
        \cup { [state |-> "present", lines |-> l] : l \in SeqsUpTo(LineChoices, MaxLines) }

\* the paths and patterns isExcluded is exercised on
MatchPaths ==
    { "file.log", "a/b/file.log", "file.logx", "vendor/package.json",
      "src/vendor/lib.js", "src/components/app.js", "temp/file.txt", "temp",
      "temporary/file.txt", "a/temp/file.txt", "config/app.ini", "config",
      "configs/app.ini", "a/config/x", "exact_file", "exact_file_diff",
      "exact_file/x", ".env", ".hidden/x" }

MatchPatterns ==
    { "*.log", "vendor", "temp/", "/config/", "/config", "/exact_file",
      "/exact_file/", "?emp", "a/*/file.log", ".*", "!*.log" }

\* the contents isForbiddenFile is exercised on
RunChoices ==
    { Text(1), Text(ChunkSize - Len(secretKeyMarker)),
      Text(ChunkSize - Len(secretKeyMarker) + 1), Text(ChunkSize - 1),
      Text(ChunkSize), Zero(1), Marker }

ClassifyFiles ==
    { Faulty("f", content, fault) :
        content \in SeqsUpTo(RunChoices, MaxRuns), fault \in {"none", "open", "read"} }

\* ----------------------------------------------------------------- the run

\* the instance as the tree renderer and the walker read it
G == [ layout |-> cfg.layout, ignoreState |-> cfg.ignoreFile.state,
       fileTypes |-> cfg.fileTypes, patterns |-> exclusionPatterns,
       verbose |-> cfg.verbose, countTokens |-> cfg.countTokens,
       failWrites |-> cfg.failWrites ]

Line(text) == Out("line", "", text, <<>>)

IdleMatch == mPath = "" /\ mTodo = {} /\ mRet = "idle"
IdleClassify == cFile = File("", <<>>) /\ cRet = "idle"

Init ==
    /\ cfg \in Configs
    /\ exclusionPatterns = {}
    /\ pc = "new"
    /\ outputWriter = <<>>
    /\ stderr = <<>>
    /\ writeCalls = 0
    /\ fsCalls = <<>>
    /\ handles = <<>>
    /\ walkQueue = <<>>
    /\ tokens = 0
    /\ retErr = ""
    /\ IdleMatch
    /\ IdleClassify

\* the lines main writes to os.Stderr before it calls NewGit2LLM
mainStart(c) ==
    IF c.verbose
    THEN << Diag("Version:", "", 0),
            Diag(IF c.fileTypes # <<>> THEN "Scanning for file types:"
                 ELSE "No file types specified. Scanning all files.", "", 0) >>
    ELSE <<>>

\* the lines main writes to os.Stderr when NewGit2LLM has returned err
mainAfterNew(c, err) ==
    IF ~c.verbose THEN <<>>
    ELSE IF err # "" THEN <<Diag("Error initializing git2llm:", "", 0)>>
    ELSE (IF c.excludePatterns # {}
          THEN <<Diag("Added custom exclusion patterns", "", Cardinality(c.excludePatterns))>>
          ELSE <<>>)
         \o (IF ~c.excludeTests THEN <<Diag("Including all files.", "", 0)>> ELSE <<>>)

\* the lines main writes to os.Stderr when ScanRepository has returned err
mainAfterScan(c, err) ==
    IF ~c.verbose THEN <<>>
    ELSE IF err # "" THEN <<Diag("Scan failed:", "", 0)>>
    ELSE <<Diag("Scan complete.", "", 0)>>

\* main up to the call of ScanRepository: NewGit2LLM(...)
Construct ==
    /\ pc = "new"
    /\ LET r == NewGit2LLM(cfg)
       IN  /\ exclusionPatterns' = r.patterns
           /\ stderr' = stderr \o mainStart(cfg) \o r.diag \o mainAfterNew(cfg, r.err)
           /\ handles' = handles \o r.handles
           /\ retErr' = r.err
           /\ pc' = IF r.err = "" THEN "ready" ELSE "exit"
    /\ UNCHANGED <<cfg, outputWriter, writeCalls, fsCalls, walkQueue, tokens,
                   matchVars, classifyVars>>

\* the code path of ScanRepository up to the call of filepath.Walk
ScanRepositorySteps(c) ==
    LET t == generateDirectoryStructureString(c)
    IN  << Write(Line("Directory Structure:"), WriteError),
           Write(Line("-------------------"), WriteError) >>
        \o [k \in DOMAIN t.reads |-> Call("ReadDir", t.reads[k])]
        \o (IF t.err # ""
            THEN <<Return(t.err \o ": " \o t.at)>>
            ELSE << AddTokens(t.tokens),
                    Write(Out("tree", "", "/ ", t.lines), WriteError),
                    Write(Line("File Contents:"), WriteError),
                    Write(Line("--------------"), WriteError) >>)

\* ScanRepository up to the call of filepath.Walk
ScanRepository ==
    /\ pc = "ready"
    /\ \E r \in {Run(ScanRepositorySteps(G), writeCalls, G.failWrites)} :
           /\ outputWriter' = outputWriter \o r.out
           /\ writeCalls' = writeCalls + r.writes
           /\ fsCalls' = fsCalls \o r.calls
           /\ handles' = handles \o r.handles
           /\ tokens' = tokens + r.tokens
           /\ retErr' = r.err
           /\ IF r.err # ""
              THEN /\ pc' = "exit"
                   /\ stderr' = stderr \o mainAfterScan(cfg, r.err)
                   /\ UNCHANGED walkQueue
              ELSE /\ pc' = "walking"
                   /\ walkQueue' = WalkCalls[G.layout][G.ignoreState]
                   /\ UNCHANGED stderr
    /\ UNCHANGED <<cfg, exclusionPatterns, matchVars, classifyVars>>

\* one call of the callback by filepath.Walk: Walk goes on when the callback
\* returns nil and returns the callback's error otherwise
WalkFn ==
    /\ pc = "walking"
    /\ walkQueue # <<>>
    /\ \E r \in {walkFn(G, Head(walkQueue), writeCalls)} :
           /\ outputWriter' = outputWriter \o r.out
           /\ writeCalls' = writeCalls + r.writes
           /\ fsCalls' = fsCalls \o r.calls
           /\ handles' = handles \o r.handles
           /\ tokens' = tokens + r.tokens
           /\ IF r.err = ""
              THEN /\ stderr' = stderr \o r.diag
                   /\ walkQueue' = Tail(walkQueue)
                   /\ UNCHANGED <<pc, retErr>>
              ELSE /\ stderr' = stderr \o r.diag \o mainAfterScan(cfg, r.err)
                   /\ retErr' = "error walking directory: " \o r.err
                   /\ pc' = "exit"
                   /\ UNCHANGED walkQueue
    /\ UNCHANGED <<cfg, exclusionPatterns, matchVars, classifyVars>>

\* ScanRepository after filepath.Walk has returned nil, and the end of main
ScanReturn ==
    /\ pc = "walking"
    /\ walkQueue = <<>>
    /\ stderr' = stderr \o (IF cfg.countTokens
                            THEN <<Diag("Total tokens", "", tokens)>> ELSE <<>>)
                       \o mainAfterScan(cfg, "")
    /\ pc' = "done"
    /\ UNCHANGED <<cfg, exclusionPatterns, outputWriter, writeCalls, fsCalls, handles,
                   walkQueue, tokens, retErr, matchVars, classifyVars>>

Next == Construct \/ ScanRepository \/ WalkFn \/ ScanReturn

Spec == Init /\ [][Next]_vars

\* ---------------------------------------------- isExcluded, call by call

IdleCfg ==
    [ layout |-> "project", fileTypes |-> <<>>, excludePatterns |-> {},
      ignoreFile |-> NoIgnoreFile, cwd |-> "startPath", failWrites |-> {},
      excludeTests |-> FALSE, verbose |-> FALSE, countTokens |-> FALSE,
      model |-> "cl100k_base", noRecurse |-> FALSE ]

IdleScan ==
    /\ cfg = IdleCfg
    /\ outputWriter = <<>>
    /\ stderr = <<>>
    /\ writeCalls = 0
    /\ fsCalls = <<>>
    /\ handles = <<>>
    /\ walkQueue = <<>>
    /\ tokens = 0
    /\ retErr = ""

InitMatch ==
    /\ IdleScan
    /\ IdleClassify
    /\ exclusionPatterns \in SubsetsUpTo(MatchPatterns, MaxPatterns)
    /\ mPath \in MatchPaths
    /\ mTodo = exclusionPatterns
    /\ mRet = "running"
    /\ pc = "isExcluded"

\* one iteration of `for pattern := range g.exclusionPatterns`: the map is
\* ranged over in no particular order
RangeStep ==
    /\ pc = "isExcluded"
    /\ \E pattern \in mTodo :
         LET step == isExcludedStep(pattern, mPath)
         IN  IF step = "continue"
             THEN /\ mTodo' = mTodo \ {pattern}
                  /\ UNCHANGED <<mRet, pc>>
             ELSE /\ mRet' = IF step = "return true" THEN "true" ELSE "false"
                  /\ pc' = "returned"
                  /\ UNCHANGED mTodo
    /\ UNCHANGED <<scanVars, exclusionPatterns, mPath, classifyVars>>

\* the loop is over: return false
RangeEnd ==
    /\ pc = "isExcluded"
    /\ mTodo = {}
    /\ mRet' = "false"
    /\ pc' = "returned"
    /\ UNCHANGED <<scanVars, exclusionPatterns, mPath, mTodo, classifyVars>>

NextMatch == RangeStep \/ RangeEnd

SpecMatch == InitMatch /\ [][NextMatch]_vars

\* ------------------------------------------- isForbiddenFile, call by call

InitClassify ==
    /\ IdleScan
    /\ IdleMatch
    /\ exclusionPatterns = {}
    /\ cFile \in ClassifyFiles
    /\ cRet = "pending"
    /\ pc = "isForbiddenFile"

Classify ==
    /\ pc = "isForbiddenFile"
    /\ cRet' = isForbiddenFile(cFile)
    /\ pc' = "classified"
    /\ UNCHANGED <<scanVars, exclusionPatterns, matchVars, cFile>>

NextClassify == Classify

SpecClassify == InitClassify /\ [][NextClassify]_vars

\* --------------------------------------- loadExclusionPatterns, call by call

InitLoad ==
    /\ cfg \in {[IdleCfg EXCEPT !.ignoreFile = f] : f \in LoadFiles}
    /\ outputWriter = <<>>
    /\ stderr = <<>>
    /\ writeCalls = 0
    /\ fsCalls = <<>>
    /\ handles = <<>>
    /\ walkQueue = <<>>
    /\ tokens = 0
    /\ retErr = ""
    /\ IdleMatch
    /\ IdleClassify
    /\ exclusionPatterns = {}
    /\ pc = "loadExclusionPatterns"

\* g.loadExclusionPatterns(exclusionFile): the instance gets its pattern set
\* unless an error is returned
Load ==
    /\ pc = "loadExclusionPatterns"
    /\ \E r \in {loadExclusionPatterns(OpenedIgnoreFile(cfg))} :
           /\ exclusionPatterns' = r.patterns
           /\ handles' = handles \o r.handles
           /\ retErr' = r.err
    /\ pc' = "loaded"
    /\ UNCHANGED <<cfg, outputWriter, stderr, writeCalls, fsCalls, walkQueue, tokens,
                   matchVars, classifyVars>>

NextLoad == Load

SpecLoad == InitLoad /\ [][NextLoad]_vars

\* ------------------------------------------------ properties: isExcluded

Returned == pc = "returned"
Excluded == mRet = "true"

\* the shapes of a pattern
LeadingSlash(p) == Len(p) > 0 /\ SubSeq(p, 1, 1) = "/"
TrailingSlash(p) == Len(p) > 0 /\ SubSeq(p, Len(p), Len(p)) = "/"
PlainPattern(p) == ~LeadingSlash(p) /\ ~TrailingSlash(p)
DirPattern(p) == ~LeadingSlash(p) /\ TrailingSlash(p)
\* the name of an anchored pattern /name or /name/, which is not empty
AnchoredName(p) ==
    IF TrailingSlash(p) THEN SubSeq(p, 2, Len(p) - 1) ELSE SubSeq(p, 2, Len(p))
AnchoredPattern(p) == LeadingSlash(p) /\ Len(AnchoredName(p)) > 0

\* path is `name`, or `name` followed by the separator and more
AtOrBelow(path, name) ==
    \/ path = name
    \/ /\ Len(path) > Len(name)
       /\ SubSeq(path, 1, Len(name)) = name
       /\ SubSeq(path, Len(name) + 1, Len(name) + 1) = "/"

\* the segments of a path: its maximal pieces without a separator
Segments(path) ==
    { seg \in { SubSeq(path, i, j) : i \in 1..Len(path), j \in 1..Len(path) } :
        \E i \in 1..Len(path) : \E j \in i..Len(path) :
            /\ seg = SubSeq(path, i, j)
            /\ \A k \in i..j : SubSeq(path, k, k) # "/"
            /\ (i = 1 \/ SubSeq(path, i - 1, i - 1) = "/")
            /\ (j = Len(path) \/ SubSeq(path, j + 1, j + 1) = "/") }

\* C2: whatever order the range loop visits the patterns in, isExcluded
\* returns true iff at least one pattern of the set matches the path under
\* its own rule.
C2_OrderIndependent ==
    Returned => (Excluded <=> \E p \in exclusionPatterns : PatternExcludes(p, mPath))

C2_Witness ==
    /\ Returned
    /\ Excluded
    /\ Cardinality(exclusionPatterns) = 2
    /\ mTodo # exclusionPatterns
    /\ \E p \in exclusionPatterns : ~PatternExcludes(p, mPath)

\* C24: exclusion is monotone in the pattern set: a path excluded under a
\* subset of the patterns the loop ran over is excluded by the loop, a path
\* the loop excludes stays excluded under every larger set, and no pattern,
\* one that starts with `!` included, takes a path out again.
C24_Monotone ==
    Returned =>
        /\ \A S \in SUBSET exclusionPatterns : isExcluded(mPath, S) => Excluded
        /\ \A U \in SubsetsUpTo(MatchPatterns, MaxPatterns) :
              /\ Excluded => isExcluded(mPath, exclusionPatterns \cup U)
              /\ U \subseteq exclusionPatterns =>
                    (isExcluded(mPath, exclusionPatterns \cup U) <=> Excluded)

C24_Witness ==
    /\ Returned
    /\ Excluded
    /\ mPath = "file.log"
    /\ exclusionPatterns = {"*.log", "!*.log"}
    /\ mTodo = {"*.log"}

RECURSIVE ByteAt(_, _)
ByteAt(content, k) ==
    IF k < Head(content).n THEN Head(content).b
    ELSE ByteAt(Tail(content), k - Head(content).n)

\* the offsets at which a run of the content starts or ends
Boundaries(content) == {Offset(content, i) : i \in 1..Len(content) + 1}

\* a zero byte lies among the first 16 KiB of the file
ZeroInWindow(content) ==
    \E k \in Boundaries(content) :
        k < Size(content) /\ k < ChunkSize /\ ByteAt(content, k) = "zero"

\* the literal lies wholly among the first 16 KiB of the file
MarkerInWindow(content) ==
    \E k \in Boundaries(content) :
        /\ k < Size(content)
        /\ ByteAt(content, k) = "marker"
        /\ k + Len(secretKeyMarker) <= ChunkSize

\* C10: for a file that opens and reads, the result is binary if a zero byte
\* lies within the first 16 KiB (also when the chunk holds the marker), else
\* secret if the chunk holds the marker, else plain, the empty file included.
C10_Classification ==
    (pc = "classified" /\ cFile.fault = "none") =>
        cRet = IF ZeroInWindow(cFile.content) THEN "binary"
               ELSE IF MarkerInWindow(cFile.content) THEN "private key"
               ELSE ""

C10_Witness ==
    /\ pc = "classified"
    /\ cFile.fault = "none"
    /\ cFile.content = <<Marker, Zero(1)>>
    /\ cRet = "binary"

\* ------------------------------------------- properties: ScanRepository

Writes == Range(outputWriter)

\* the number of per-file blocks written for a path
BlockCount(path) ==
    Cardinality({k \in DOMAIN outputWriter :
                    outputWriter[k].w = "File" /\ outputWriter[k].path = path})

\* the entries of each file system that are no directories
NonDirsOf ==
    [l \in DOMAIN Layouts |->
        [st \in IgnoreStates |-> {e \in Tree(l, st) : e.kind # "dir"}]]

\* the entries of the run's file system that are no directories
NonDirs == NonDirsOf[cfg.layout][cfg.ignoreFile.state]

\* filepath.Walk reaches the entry: it can be lstat-ed and every directory
\* above it can be read
AccessibleIn(fs, e) ==
    /\ e.fault # "walk"
    /\ \A d \in fs :
         (d.kind = "dir" /\ d.path # "." /\ AtOrBelow(e.path, d.path) /\ d.path # e.path)
             => d.fault \notin {"readdir", "walk"}

\* the entries of each file system that filepath.Walk reaches
AccessibleOf ==
    [l \in DOMAIN Layouts |->
        [st \in IgnoreStates |-> {e \in Tree(l, st) : AccessibleIn(Tree(l, st), e)}]]

Accessible(e) == e \in AccessibleOf[cfg.layout][cfg.ignoreFile.state]

\* every pattern a run can hold and every path a run can meet
KnownPatterns ==
    defaultPatterns \cup CustomPatterns \cup loadTestPatterns
        \cup UNION {IgnoreFilePatterns(f.lines) : f \in IgnoreFiles}
KnownPaths ==
    {e.path : e \in UNION {Tree(l, st) : l \in DOMAIN Layouts, st \in IgnoreStates}}

\* for each pattern, the paths it excludes
ExcludedPaths ==
    [p \in KnownPatterns |-> {path \in KnownPaths : PatternExcludes(p, path)}]

\* for each extension filter, the paths whose name ends with one of its suffixes
FilteredPaths ==
    [f \in FileTypeChoices |->
        {path \in KnownPaths :
            \/ f = <<>>
            \/ \E k \in DOMAIN f :
                  LET ext == f[k]
                      n == Name(path)
                  IN  Len(ext) <= Len(n) /\ SubSeq(n, Len(n) - Len(ext) + 1, Len(n)) = ext}]

\* the entry passes the pattern set and the extension filter
Included(e) ==
    /\ \A p \in exclusionPatterns : e.path \notin ExcludedPaths[p]
    /\ e.path \in FilteredPaths[cfg.fileTypes]

WritesFor(path) == SelectSeq(outputWriter, LAMBDA w : w.path = path)
CallsFor(path) == SelectSeq(fsCalls, LAMBDA c : c.path = path)

IsPrefix(a, b) == Len(a) <= Len(b) /\ a = SubSeq(b, 1, Len(a))

FiftyDashes == "--------------------------------------------------"

\* the walk has made its call for the entry
Visited(e) ==
    /\ pc \in {"walking", "done"}
    /\ \A k \in DOMAIN walkQueue : walkQueue[k].entry # e

\* the entry was handed to processFile, on a writer that takes every write
Processed(e) ==
    cfg.failWrites = {} /\ Visited(e) /\ Accessible(e) /\ Included(e)

\* the entry is a symbolic link and Lstat says so
LinkSeen(e) == e.kind = "symlink" /\ e.fault # "lstat"

\* the blocks of the output format
SymlinkBlockOf(p) ==
    << [w |-> "File", path |-> p, note |-> "Symlink - skipped content", data |-> <<>>],
       [w |-> "dashes", path |-> p, note |-> FiftyDashes, data |-> <<>>],
       [w |-> "Content of", path |-> p, note |-> "Skipped - Symlink", data |-> <<>>] >>
BinaryBlockOf(p) ==
    << [w |-> "File", path |-> p, note |-> "Binary - skipped content", data |-> <<>>],
       [w |-> "dashes", path |-> p, note |-> FiftyDashes, data |-> <<>>],
       [w |-> "Content of", path |-> p, note |-> "Skipped - Binary File", data |-> <<>>] >>
PlainBlockOf(p, bytes) ==
    << [w |-> "File", path |-> p, note |-> "", data |-> <<>>],
       [w |-> "dashes", path |-> p, note |-> FiftyDashes, data |-> <<>>],
       [w |-> "Content of", path |-> p, note |-> "", data |-> <<>>],
       [w |-> "bytes", path |-> p, note |-> "", data |-> bytes],
       [w |-> "newline", path |-> p, note |-> "", data |-> <<>>],
       [w |-> "newline", path |-> p, note |-> "", data |-> <<>>] >>

Unreadable(e) == e.kind = "file" /\ e.fault \in {"open", "read", "readfile"}

\* C12: a file that cannot be opened or read gets a block with an inline
\* error message in the place of its content and is not reported as binary,
\* and processFile returns an error for it, which the callback logs.
C12_UnreadableInlineError ==
    \A e \in NonDirs :
        (Unreadable(e) /\ Processed(e)) =>
            /\ \E k \in DOMAIN outputWriter :
                  outputWriter[k].path = e.path /\ outputWriter[k].w = "Error reading file"
            /\ \A k \in DOMAIN outputWriter :
                  outputWriter[k].path = e.path
                      => outputWriter[k].note # "Binary - skipped content"
            /\ \E k \in DOMAIN stderr :
                  stderr[k].msg = "Error processing file" /\ stderr[k].path = e.path

\* the block of the entry is one of the whole blocks of the output format
WholeBlock(e) ==
    \/ WritesFor(e.path) = SymlinkBlockOf(e.path)
    \/ WritesFor(e.path) = BinaryBlockOf(e.path)
    \/ WritesFor(e.path) = PlainBlockOf(e.path, e.content)
    \/ /\ e.fault = "readfile"
       /\ Len(WritesFor(e.path)) = 3
       /\ WritesFor(e.path)[3].w = "Error reading file"

\* the entries filepath.Walk hands to processFile
Handed == {e \in NonDirs : Accessible(e) /\ Included(e)}

\* C13: once the walk has begun the scan is never abandoned and returns nil:
\* a failed open, read or write on one file leaves the walk going; when the
\* scan is over the output holds both headers and the tree, every file handed
\* to processFile was looked at, and at most as many files as the writer
\* refused writes lack a whole block.
C13_ScanGoesOn ==
    /\ pc = "exit" =>
          /\ walkQueue = <<>>
          /\ retErr # ""
          /\ \A k \in DOMAIN fsCalls : fsCalls[k].op = "ReadDir"
    /\ pc \in {"walking", "done"} =>
          /\ retErr = ""
          /\ Len(outputWriter) >= 5
          /\ outputWriter[1].note = "Directory Structure:"
          /\ outputWriter[3].w = "tree"
          /\ outputWriter[4].note = "File Contents:"
    /\ pc = "done" =>
          /\ walkQueue = <<>>
          /\ \A e \in Handed : CallsFor(e.path) # <<>>
          /\ Cardinality({e \in Handed : ~WholeBlock(e)}) <= Cardinality(cfg.failWrites)

C13_Witness ==
    /\ pc = "done"
    /\ retErr = ""
    /\ cfg.layout = "content"
    /\ cfg.fileTypes = <<>>
    /\ cfg.failWrites = {8}
    /\ Len(WritesFor("bad.txt")) = 2
    /\ WritesFor("locked.txt") = BinaryBlockOf("locked.txt")
    /\ WritesFor("gone.txt")[3].w = "Error reading file"
    /\ WritesFor("img.bin") = BinaryBlockOf("img.bin")
    /\ WritesFor("odd.txt") = PlainBlockOf("odd.txt", <<Text(1)>>)

\* the entry is handled as a plain file: no link that Lstat reports, every
\* operation on it works, no zero byte and no marker in its first 16 KiB
Plain(e) ==
    /\ ~LinkSeen(e)
    /\ e.fault \in {"none", "lstat"}
    /\ ~ZeroInWindow(e.content)
    /\ ~MarkerInWindow(e.content)

\* every entry of every file system
KnownEntries == UNION {Tree(l, st) : l \in DOMAIN Layouts, st \in IgnoreStates}

PlainFiles == {e \in KnownEntries : e.kind # "dir" /\ Plain(e)}

ForbiddenFiles ==
    {e \in KnownEntries :
        /\ e.kind # "dir"
        /\ ~LinkSeen(e)
        /\ e.fault \in {"none", "lstat"}
        /\ ZeroInWindow(e.content) \/ MarkerInWindow(e.content)}

\* the diagnostic lines of a kind written about a path
DiagsFor(msg, path) == {k \in DOMAIN stderr : stderr[k].msg = msg /\ stderr[k].path = path}

\* C15: for a file with a zero byte or the marker in its first 16 KiB
\* nothing but the binary block is written (File: rel (Binary - skipped
\* content), 50 dashes, Content of rel: (Skipped - Binary File)), the same
\* block for both, no byte of the file; ReadFile is never called on it,
\* processFile returns nil (the callback logs no error), and the diagnostic
\* line names the reason: binary for the zero byte, private key otherwise.
C15_ForbiddenBlock ==
    \A e \in NonDirs \cap ForbiddenFiles :
            /\ IsPrefix(WritesFor(e.path), BinaryBlockOf(e.path))
            /\ \A k \in DOMAIN fsCalls :
                  fsCalls[k].path = e.path => fsCalls[k].op # "ReadFile"
            /\ Processed(e) =>
                  /\ WritesFor(e.path) = BinaryBlockOf(e.path)
                  /\ DiagsFor("Error processing file", e.path) = {}
                  /\ DiagsFor("Skipping forbidden binary", e.path) # {}
                        <=> ZeroInWindow(e.content)
                  /\ DiagsFor("Skipping forbidden private key", e.path) # {}
                        <=> ~ZeroInWindow(e.content)

C15_Witness ==
    /\ pc = "done"
    /\ cfg.layout = "content"
    /\ WritesFor("id_rsa") = BinaryBlockOf("id_rsa")
    /\ WritesFor("img.bin") = BinaryBlockOf("img.bin")
    /\ DiagsFor("Skipping forbidden private key", "id_rsa") # {}

\* ----------------------------------------------- properties: NewGit2LLM

\* the paths the patterns of the start path's .llmignore exclude
IgnoredPaths ==
    UNION {ExcludedPaths[p] : p \in IgnoreFilePatterns(cfg.ignoreFile.lines)}

\* the paths the primary output names: in a File: line or in the tree
NamedPaths ==
    {w.path : w \in {x \in Writes : x.w = "File"}}
        \cup UNION {{w.data[k].path : k \in DOMAIN w.data} : w \in {x \in Writes : x.w = "tree"}}

\* a white-space character, as strings.TrimSpace sees it
White(ch) == ch \in {" ", "\t", "\r"}

\* the line without its leading and trailing white space
Stripped(line) ==
    LET black == {k \in 1..Len(line) : ~White(SubSeq(line, k, k))}
    IN  IF black = {} THEN ""
        ELSE SubSeq(line, CHOOSE i \in black : \A k \in black : i <= k,
                          CHOOSE j \in black : \A k \in black : k <= j)

\* the five built-in patterns
BuiltIn == {".git", ".svn", ".idea", ".vscode", "go.sum"}

Contains(s, sub) ==
    \E i \in 1..(Len(s) - Len(sub) + 1) : SubSeq(s, i, i + Len(sub) - 1) = sub

\* C18: when the .llmignore the process finds exists and cannot be opened,
\* or cannot be read to its end, NewGit2LLM returns an error that holds
\* `error opening exclusion file`, respectively `error reading exclusion
\* file`, and no instance; nothing is scanned and nothing is written.
C18_SetupErrorFatal ==
    (pc # "new" /\ cfg.cwd = "startPath" /\ cfg.model # "unknown"
        /\ cfg.ignoreFile.state \in {"denied", "unreadable"}) =>
        /\ pc = "exit"
        /\ Contains(retErr, IF cfg.ignoreFile.state = "denied"
                            THEN "error opening exclusion file"
                            ELSE "error reading exclusion file")
        /\ exclusionPatterns = {}
        /\ outputWriter = <<>>
        /\ fsCalls = <<>>
        /\ walkQueue = <<>>

C18_Witness ==
    /\ pc = "exit"
    /\ cfg.ignoreFile.state = "denied"
    /\ retErr = "failed to load exclusion patterns: error opening exclusion file"

\* NewGit2LLM gave an instance
Built == pc \in {"ready", "walking", "done"} \/ (pc = "exit" /\ outputWriter # <<>>)

\* the line up to its first `#`
BeforeHash(line) ==
    LET hashes == {k \in 1..Len(line) : SubSeq(line, k, k) = "#"}
    IN  IF hashes = {} THEN line
        ELSE SubSeq(line, 1, (CHOOSE i \in hashes : \A k \in hashes : i <= k) - 1)

\* the patterns of a list of lines read as an ignore file, and as the
\* bundled list of test patterns
IgnoreSet(lines) ==
    {Stripped(lines[k]) : k \in DOMAIN lines} \ ({""} \cup
        {Stripped(lines[k]) : k \in {j \in DOMAIN lines :
                                        SubSeq(Stripped(lines[j]), 1, 1) = "#"}})
TestSet == {Stripped(BeforeHash(testPatterns[k])) : k \in DOMAIN testPatterns} \ {""}

\* C28: from the moment NewGit2LLM has given an instance to the end of the
\* run, the pattern set is the union of the built-in patterns, the patterns
\* of the ignore file the process opened, the -e patterns and, when test
\* exclusion is asked for and only then, the bundled test patterns: every
\* built-in pattern is in it and no later step adds to it or takes from it.
C28_PatternSetBuiltOnce ==
    Built =>
        /\ exclusionPatterns =
              BuiltIn \cup IgnoreSet(OpenedIgnoreFile(cfg).lines) \cup cfg.excludePatterns
                  \cup (IF cfg.excludeTests THEN TestSet ELSE {})
        /\ BuiltIn \subseteq exclusionPatterns
        /\ ~cfg.excludeTests =>
              exclusionPatterns \cap TestSet
                  \subseteq (IgnoreSet(OpenedIgnoreFile(cfg).lines) \cup cfg.excludePatterns)

C28_Witness ==
    /\ pc = "done"
    /\ cfg.excludeTests
    /\ cfg.ignoreFile.state = "present"
    /\ cfg.excludePatterns = {"vendor"}
    /\ exclusionPatterns =
          {".git", ".svn", ".idea", ".vscode", "go.sum", "*.key", "temp/", "*.log",
           "logs/", "vendor", "conftest.py", "*_test.go"}

\* C16: the patterns of the .llmignore file in the scanned root are applied
\* to the scan of that root, whatever the working directory of the process:
\* with *.key, temp/, *.log and logs/ in it the output names none of
\* secret.key, temp/cache.tmp and logs/app.log.
C16_RootIgnoreFileApplied ==
    cfg.ignoreFile.state = "present" => NamedPaths \cap IgnoredPaths = {}

\* ------------------------------------------- properties: diagnostics

\* a diagnostic line with this text was written
Said(msg) == \E k \in DOMAIN stderr : stderr[k].msg = msg

\* a diagnostic line about a failure on the path was written: a line that
\* names the path and is not one of the progress lines of a file that was
\* read
SaidAbout(path) ==
    \E k \in DOMAIN stderr :
        /\ stderr[k].path = path
        /\ stderr[k].msg \notin {"Processing:", "tokens, lines", "lines"}

\* NewGit2LLM gave an instance and ScanRepository has been called on it
Scanned == pc \in {"exit", "walking", "done"} /\ exclusionPatterns # {}

\* the entries filepath.Walk hands to the callback with an error
WalkErrors ==
    {c.entry : c \in {x \in Range(WalkCalls[cfg.layout][cfg.ignoreFile.state]) : x.err}}

\* NewGit2LLM failed, and so main said
SetupErrorSaid == (pc = "exit" /\ ~Scanned) => Said("Error initializing git2llm:")

\* ScanRepository failed, and so main said
ScanErrorSaid == (pc = "exit" /\ Scanned) => Said("Scan failed:")

\* every access error of the walk was reported
WalkErrorSaid == \A e \in WalkErrors : Visited(e) => SaidAbout(e.path)

\* every failed Open, Read or ReadFile of a processed file was reported
FileErrorSaid ==
    \A e \in NonDirs :
        (Processed(e) /\ e.fault \in {"open", "read", "readfile"}) => SaidAbout(e.path)

\* every failed Lstat of a processed file was reported
LstatErrorSaid ==
    \A e \in NonDirs : (Processed(e) /\ e.fault = "lstat") => SaidAbout(e.path)

\* the kinds of write the output format has: heading lines, the tree, and
\* the writes of the per-file blocks
OutputKinds ==
    {"line", "tree", "File", "dashes", "Content of", "bytes", "newline",
     "Error reading file"}

\* the texts of the diagnostic lines
DiagTexts ==
    {"Skipping symlink", "Skipping forbidden binary", "Skipping forbidden private key",
     "Skipping forbidden error(open)", "Skipping forbidden error(read)",
     "Processing:", "tokens, lines", "lines", "Error processing file",
     "Error accessing path", "Excluded test patterns", "Total tokens",
     "Version:", "Scanning for file types:",
     "No file types specified. Scanning all files.", "Error initializing git2llm:",
     "Added custom exclusion patterns", "Including all files.", "Scan failed:",
     "Scan complete."}

\* what the walk writes to the primary output over the calls, on a writer
\* that takes every write
RECURSIVE WalkOutput(_, _)
WalkOutput(c, calls) ==
    IF calls = <<>> THEN <<>>
    ELSE walkFn(c, Head(calls), 0).out \o WalkOutput(c, Tail(calls))

\* the primary output of the whole scan of the run when it is made quietly
QuietOutput ==
    LET quiet == [G EXCEPT !.verbose = FALSE]
    IN  Run(ScanRepositorySteps(quiet), 0, {}).out
            \o WalkOutput(quiet, WalkCalls[cfg.layout][cfg.ignoreFile.state])

\* C26: the diagnostic lines go to the diagnostic stream only: the primary
\* output holds nothing but the two headings, the tree, the two headings of
\* the content section and the writes of per-file blocks, none of them a
\* diagnostic text, and when the scan is over it is, write for write, what
\* the same scan gives without -v.
C26_DiagnosticsApart ==
    /\ \A k \in DOMAIN outputWriter :
          /\ outputWriter[k].w \in OutputKinds
          /\ outputWriter[k].note \notin DiagTexts
          /\ outputWriter[k].w = "line" <=> k \in {1, 2, 4, 5}
          /\ outputWriter[k].w = "tree" <=> k = 3
    /\ \A k \in DOMAIN stderr : stderr[k].msg \in DiagTexts
    /\ (pc = "done" /\ cfg.failWrites = {}) => outputWriter = QuietOutput

C26_Witness ==
    /\ pc = "done"
    /\ cfg.verbose
    /\ cfg.countTokens
    /\ cfg.excludeTests
    /\ cfg.layout = "content"
    /\ outputWriter = QuietOutput
    /\ Said("Skipping symlink") /\ Said("Skipping forbidden private key")
    /\ Said("Processing:") /\ Said("Error processing file")
    /\ Said("Error accessing path") /\ Said("Excluded test patterns")
    /\ Said("Total tokens")

\* C25: no failure is dropped without a line on the diagnostic stream,
\* verbose or not: a set-up error, a tree error, an access error of the
\* walk, a failed open or read of a file and a failed Lstat in the symlink
\* test each leave at least one diagnostic line about it.
C25_NoSilentFailure ==
    /\ SetupErrorSaid
    /\ ScanErrorSaid
    /\ WalkErrorSaid
    /\ FileErrorSaid
    /\ LstatErrorSaid

\* ------------------------------------------- properties: file handles

\* the number of handles open after the first k handle events
OpenAfter(hs, k) ==
    Cardinality({i \in 1..k : hs[i].h = "open"})
        - Cardinality({i \in 1..k : hs[i].h = "close"})

\* the handle events of a path
HandlesOf(path) == SelectSeq(handles, LAMBDA h : h.path = path)

\* the files isForbiddenFile is called on and can open, on a writer that
\* takes every write
Classified ==
    {e \in NonDirs : Processed(e) /\ ~LinkSeen(e) /\ e.fault # "open"}

\* C29: at every point of a run at most one handle given by g.fs.Open is
\* open; each handle is closed before another is opened, by the function
\* that opened it, whether the classifier finds text, a zero byte or the
\* marker, or its Read fails, and whether the loader reads the ignore file
\* to its end or not; and no handle is open between two steps of the run,
\* when the walk goes to the next entry or when the run ends.
C29_HandlesScoped ==
    \A hs \in {handles} :
        /\ \A k \in 0..Len(hs) : OpenAfter(hs, k) \in {0, 1}
        /\ OpenAfter(hs, Len(hs)) = 0
        /\ \A k \in DOMAIN hs :
              hs[k].h = "open" =>
                  /\ k < Len(hs)
                  /\ hs[k + 1] = [h |-> "close", path |-> hs[k].path]
        /\ \A e \in Classified :
              e.path # exclusionFile => HandlesOf(e.path) = OpenedAndClosed(e.path)

C29_Witness ==
    /\ pc = "done"
    /\ cfg.layout = "content"
    /\ cfg.ignoreFile.state = "present"
    /\ cfg.cwd = "startPath"
    /\ HandlesOf("img.bin") = OpenedAndClosed("img.bin")
    /\ HandlesOf("bad.txt") = OpenedAndClosed("bad.txt")
    /\ HandlesOf("id_rsa") = OpenedAndClosed("id_rsa")
    /\ HandlesOf("empty.txt") = OpenedAndClosed("empty.txt")
    /\ HandlesOf("locked.txt") = <<>>
    /\ HandlesOf(exclusionFile)
          = OpenedAndClosed(exclusionFile) \o OpenedAndClosed(exclusionFile)

\* ---------------------------------------------- properties: the tree

\* the lines of the tree written to the primary output, below the root
\* marker: the tree is the third write of ScanRepository
TreeLines ==
    IF Len(outputWriter) >= 3 /\ outputWriter[3].w = "tree"
    THEN outputWriter[3].data ELSE <<>>

\* for every path, its directory and its name in lower case
ParentOf == [p \in KnownPaths |-> Parent(p)]
LowerName == [p \in KnownPaths |-> ToLower(Name(p))]

\* the pairs of paths of one directory of which the first has the smaller
\* name when case is ignored
NameOrder ==
    {pq : pq \in {xy \in KnownPaths \X KnownPaths :
                    /\ ParentOf[xy[1]] = ParentOf[xy[2]]
                    /\ StrLess(LowerName[xy[1]], LowerName[xy[2]])}}

\* two lines of a tree are entries of the same directory
Siblings(a, b) == ParentOf[a.path] = ParentOf[b.path]

\* the place of a path in a tree, 0 when it is not shown
PlaceOf(lines, path) ==
    IF \E k \in DOMAIN lines : lines[k].path = path
    THEN CHOOSE k \in DOMAIN lines : lines[k].path = path
    ELSE 0

LastShown(lines, i) ==
    \A j \in (i + 1)..Len(lines) : ~Siblings(lines[i], lines[j])

\* C20: in every tree the last entry shown in a directory has the last-entry
\* connector and every other shown entry the non-last one, and the lines
\* below a directory carry its prefix followed by 4 spaces when it is the
\* last shown entry of its level and by the vertical bar when it is not;
\* also when the entries that sort last are excluded or filtered out.
C20_LastShownConnector ==
    \A lines \in {TreeLines} : \A i \in DOMAIN lines :
        /\ lines[i].connector = (IF LastShown(lines, i) THEN "ell" ELSE "tee")
        /\ \A j \in DOMAIN lines :
              ParentOf[lines[j].path] = lines[i].path =>
                  lines[j].prefix =
                      Append(lines[i].prefix,
                             IF LastShown(lines, i) THEN "blank" ELSE "bar")

\* the directories of the run's file system below its root
SubDirs == {e \in FS(cfg) : e.kind = "dir" /\ e.path # "."}

\* the path is excluded under the pattern set of the instance
ExcludedNow(path) == \E p \in exclusionPatterns : path \in ExcludedPaths[p]

\* the directories g.fs.ReadDir was called on
DirsRead == {fsCalls[k].path : k \in {j \in DOMAIN fsCalls : fsCalls[j].op = "ReadDir"}}

\* the pairs of known paths of which the first is the second or lies below it
Below ==
    {pq : pq \in {xy \in KnownPaths \X KnownPaths : AtOrBelow(xy[1], xy[2])}}

\* C21: the tree lists no excluded entry, and for every directory whose
\* relative path is excluded ReadDir is never called on it and no entry of
\* its subtree is listed in the tree.
C21_ExcludedNeverRendered ==
    \A lines \in {TreeLines} :
        /\ \A k \in DOMAIN lines : ~ExcludedNow(lines[k].path)
        /\ \A d \in SubDirs :
              ExcludedNow(d.path) =>
                  /\ d.path \notin DirsRead
                  /\ \A k \in DOMAIN lines : <<lines[k].path, d.path>> \notin Below

C21_Witness ==
    /\ pc = "done"
    /\ cfg.layout = "nested"
    /\ exclusionPatterns = defaultPatterns \cup {"temp/"}
    /\ DirsRead = {".", "a", "a/temp", "temporary", "sub"}
    /\ Len(TreeLines) > 0

\* the paths the tree lists
Listed == {TreeLines[k].path : k \in DOMAIN TreeLines}

\* the renderer comes to the directory: neither it nor a directory above it
\* is excluded
Reached(d) ==
    \A a \in SubDirs : <<d.path, a.path>> \in Below => ~ExcludedNow(a.path)

\* C22: in a tree rendered with a non-empty extension filter every listed
\* non-directory has a name that ends with one of the suffixes, and every
\* directory the renderer comes to is listed whatever its name and whether
\* or not a file is shown below it.
C22_FilterKeepsDirectories ==
    (pc \in {"walking", "done"} /\ Len(cfg.fileTypes) > 0) =>
        \A lines \in {TreeLines} :
            /\ \A k \in DOMAIN lines :
                  ~lines[k].isDir => lines[k].path \in FilteredPaths[cfg.fileTypes]
            /\ \A d \in SubDirs :
                  Reached(d) => \E k \in DOMAIN lines :
                                    lines[k].path = d.path /\ lines[k].isDir

C22_Witness ==
    /\ pc = "done"
    /\ cfg.layout = "nested"
    /\ cfg.fileTypes = <<".go">>
    /\ exclusionPatterns = defaultPatterns \cup {"temp/"}
    /\ Listed = {"a", "a/temp", "temporary", "sub", "sub/file2.go", "file1.go"}

\* the directories the renderer comes to and cannot read
Unread == {d \in FS(cfg) : d.kind = "dir" /\ d.fault = "readdir" /\ Reached(d)}

Agree(e) == (e.path \in Listed) <=> (BlockCount(e.path) = 1)

\* no block is written for an entry below a directory that is excluded
NoBlockBelowExcluded ==
    \A d \in SubDirs : ExcludedNow(d.path) =>
        \A e \in NonDirs : <<e.path, d.path>> \in Below => BlockCount(e.path) = 0

\* C27: when a scan is over on a writer that took every write, a
\* non-directory entry is listed in the tree iff it has a block, and no
\* entry below a directory the tree left out as excluded has a block.
C27_TreeAndBlocksAgree ==
    (pc = "done" /\ cfg.failWrites = {}) =>
        /\ \A e \in NonDirs : Agree(e)
        /\ NoBlockBelowExcluded

\* --------------------------------------------- properties: the tokens

\* the plain files whose content was written
Emitted == {e \in NonDirs \cap PlainFiles : Processed(e)}

\* the sum of the token counts of the contents of a set of files, each file
\* taken once
RECURSIVE ContentTokens(_)
ContentTokens(files) ==
    IF files = {} THEN 0
    ELSE LET e == CHOOSE x \in files : TRUE
         IN  CountContent(e.content) + ContentTokens(files \ {e})

\* C30: with token counting on, the total reported when the scan is over is
\* the token count of the tree text plus the token counts of the contents
\* of the plain files that were written, each counted once; files skipped
\* as binary, secret, symlink or unreadable add nothing.
C30_TokenTotal ==
    (pc = "done" /\ cfg.countTokens /\ cfg.failWrites = {}) =>
        /\ tokens = CountTree(TreeLines) + ContentTokens(Emitted)
        /\ \E k \in DOMAIN stderr :
              stderr[k] = Diag("Total tokens", "", CountTree(TreeLines) + ContentTokens(Emitted))

\* the total is the tree plus every written content counted twice
TokenTotalTwice ==
    (pc = "done" /\ cfg.countTokens /\ cfg.failWrites = {}) =>
        tokens = CountTree(TreeLines) + 2 * ContentTokens(Emitted)

\* a segment of the path starts with a dot
HasDotSegment(path) == \E seg \in Segments(path) : SubSeq(seg, 1, 1) = "."

\* C7: no path with a segment that starts with `.` is listed in the tree or
\* given a block, whatever the pattern set holds.
C7_DotfilesExcluded ==
    \A w \in Writes :
        /\ w.w = "File" => ~HasDotSegment(w.path)
        /\ w.w = "tree" => \A k \in DOMAIN w.data : ~HasDotSegment(w.data[k].path)

\* C8: with recursion disabled, no file of a subdirectory gets a block.
C8_NonRecursive ==
    cfg.noRecurse => \A w \in Writes : w.w = "File" => Index(w.path, "/") = -1

\* C9: the bytes of a file that holds the marker are never written to the
\* primary output.
C9_NoPrivateKeyBytes ==
    \A w \in Writes :
        w.w = "bytes" => \A k \in DOMAIN w.data : w.data[k].b # "marker"

====
